---- MODULE Spec2Model ----
(***************************************************************************)
(* Model of the draft synchronisation hooks of react-query-autosync:       *)
(*   lib/useReactQueryAutoSave.ts   (write-only mode, "save")              *)
(*   lib/useReactQueryAutoSync.tsx  (query-backed mode, "sync")            *)
(*                                                                         *)
(* One hook instance is modelled.  Every action is one event of the        *)
(* JavaScript event loop (a user call, a timer, a settled promise)         *)
(* together with the React renders and effects it causes.                  *)
(*                                                                         *)
(* The collaborators are modelled by their contracts:                      *)
(*  - react-query 3.x useMutation: mutate(v) builds a Mutation from the    *)
(*    options of the latest render and runs onMutate, mutationFn,          *)
(*    onSuccess/onError, onSettled on it; the callbacks of a running       *)
(*    Mutation are the closures of the render in which mutate was called.  *)
(*    The observer result (isLoading, isError) follows the latest one.     *)
(*    Only the Mutations that have not settled are kept.                   *)
(*  - lodash.debounce 4.x (trailing edge, optional maxWait).               *)
(* Values are strings; the merge function is (r, l) => r + l.              *)
(***************************************************************************)
EXTENDS Integers, Sequences, FiniteSets, TLC

\* ------------------------------------------------------------------ bounds
MaxCommits == 2      \* mutate() calls in one behaviour
MaxLen     == 2      \* longest draft value (merges concatenate)
Wait       == 2      \* autoSaveOptions.wait, in ticks
MaxWait    == 3      \* autoSaveOptions.maxWait, in ticks
MaxEdits   == 2      \* setDraft calls of a user who stops editing

\* ------------------------------------------------------------------ values
Undef   == "undefined"          \* the JavaScript value undefined
NoTime  == -1                   \* lodash: lastCallTime === undefined
Edits   == {"B", "C"}           \* values the user types
InitialRemote == "A"            \* the value of the query cache at the start
Remotes == {InitialRemote}      \* values a fetch delivers (the remote keeps answering A)
NoReject == "none"              \* the last step handled no rejection
Null    == "N"                  \* the JavaScript value null
CallerContexts == {Undef, "X"}  \* previousData in the object the caller's onMutate returns

\* merge = (remote, local) => remote + local
Merge(remote, local) == remote \o local

VARIABLES
    mode,           \* "save" (useReactQueryAutoSave) or "sync" (useReactQueryAutoSync)
    merge,          \* TRUE iff the merge option is supplied
    autoSave,       \* TRUE iff autoSaveOptions.wait is defined
    maxing,         \* TRUE iff autoSaveOptions.maxWait is defined
    callerContext,  \* mutationOptions.onMutate returns {previousData: callerContext};
                    \* Undef: it returns no such key (or is not supplied)
    provided,       \* TRUE iff a draftProvider is supplied (save mode)
    alertIfUnsavedChanges, \* the alertIfUnsavedChanges prop
    listener,       \* TRUE iff the hook's beforeunload listener is registered
    mounted,        \* FALSE after the hook was unmounted
    stateDraft,     \* the private useState cell of the draft
    peerDraft,      \* the `draft` a second hook instance given the same draftProvider reads
    draft,          \* the draft state (useState)
    draftRef,       \* draftRef.current, assigned at every render
    serverValue,    \* save mode: the serverValue state
    queryData,      \* sync mode: the query cache entry of queryKey
    mutations,      \* the Mutations that have not settled, oldest first
    status,         \* mutationResult.status: idle, loading, success or error
    nMutates,       \* number of mutate() calls so far
    nCommits,       \* number of mutationFn calls so far
    lastCommit,     \* the value of the last mutationFn call
    mutateEnabled,  \* the mutateEnabled prop
    pendingSave,    \* pendingSave.current
    timerId,        \* lodash: timerId !== undefined
    timerLeft,      \* lodash: ticks until the pending setTimeout expires
    sinceLastCall,  \* lodash: now() - lastCallTime, NoTime if undefined, kept up to Wait
    sinceLastInvoke,\* lodash: now() - lastInvokeTime, kept up to maxWait
    lastArgs,       \* lodash: lastArgs !== undefined
    invalidations,  \* 1 iff invalidateQueries was called and no fetch resolved since
    observedDraft,  \* history: the draft state at the moment the settled commit or
                    \* the fetched value handled by the last step was observed,
                    \* NoReject after any other step
    userEdits,      \* history: whether the user's setDraft calls are recorded, and
                    \* if so how many there were and the value of the last
    peer            \* a second instance of the hook given the same options and the
                    \* same draftProvider: its own state as a record (shaped like
                    \* Cur); peer.mounted is FALSE if there is no such instance

config == <<mode, merge, autoSave, maxing, callerContext, provided>>
vars == <<mode, merge, autoSave, maxing, callerContext, provided, alertIfUnsavedChanges,
          listener, mounted, stateDraft, peerDraft, draft, draftRef, serverValue, queryData,
          mutations, status, nMutates, nCommits, lastCommit, mutateEnabled, pendingSave, timerId, timerLeft,
          sinceLastCall, sinceLastInvoke, lastArgs, invalidations, observedDraft,
          userEdits, peer>>

\* The mutable state as one record, so that a handler is a function on states
\* and a sequence of calls is a composition.
Cur == [draft |-> draft, draftRef |-> draftRef, serverValue |-> serverValue,
        queryData |-> queryData, mutations |-> mutations, status |-> status,
        nMutates |-> nMutates, nCommits |-> nCommits, lastCommit |-> lastCommit,
        mutateEnabled |-> mutateEnabled, pendingSave |-> pendingSave,
        timerId |-> timerId, timerLeft |-> timerLeft, sinceLastCall |-> sinceLastCall,
        sinceLastInvoke |-> sinceLastInvoke, lastArgs |-> lastArgs,
        invalidations |-> invalidations, observedDraft |-> NoReject,
        alertIfUnsavedChanges |-> alertIfUnsavedChanges, listener |-> listener,
        mounted |-> mounted, stateDraft |-> stateDraft, peerDraft |-> peerDraft,
        userEdits |-> userEdits]

\* Variant: the private cell is written although a draftProvider is supplied.
SetStateDraftAlways(s) == s.draft

\* setDraft = draftProvider !== undefined ? draftProvider.setDraft : setStateDraft:
\* the private cell after the writes of a step.
SetStateDraft(s) == IF provided THEN s.stateDraft ELSE s.draft

\* draft = draftProvider !== undefined ? draftProvider.draft : stateDraft, as the
\* second instance evaluates it (its own private cell is never written).
PeerDraft(s) == IF provided THEN s.draft ELSE s.peerDraft

\* The step ends with the first instance in state s and the second in state p.
Assign(s, p) ==
    /\ mounted
    /\ s.nMutates <= MaxCommits
    /\ p.nMutates <= MaxCommits
    /\ peer' = p
    /\ userEdits' = s.userEdits
    /\ s.draft = Undef \/ Len(s.draft) <= MaxLen
    /\ draft' = s.draft
    /\ draftRef' = s.draftRef
    /\ serverValue' = s.serverValue
    /\ queryData' = s.queryData
    /\ mutations' = s.mutations
    /\ status' = s.status
    /\ nMutates' = s.nMutates
    /\ nCommits' = s.nCommits
    /\ lastCommit' = s.lastCommit
    /\ mutateEnabled' = s.mutateEnabled
    /\ pendingSave' = s.pendingSave
    /\ timerId' = s.timerId
    /\ timerLeft' = s.timerLeft
    /\ sinceLastCall' = s.sinceLastCall
    /\ sinceLastInvoke' = s.sinceLastInvoke
    /\ lastArgs' = s.lastArgs
    /\ invalidations' = s.invalidations
    /\ observedDraft' = s.observedDraft
    /\ alertIfUnsavedChanges' = s.alertIfUnsavedChanges
    /\ listener' = s.listener
    /\ mounted' = s.mounted
    /\ stateDraft' = SetStateDraft(s)
    /\ peerDraft' = PeerDraft(s)

\* The authoritative value: serverValue in save mode, the query cache in sync mode.
Authoritative(s) == IF mode = "save" THEN s.serverValue ELSE s.queryData

\* ------------------------------------------------------- useMutation options
NewMutation(s, v) ==
    [variables       |-> v,               \* the value mutate() was called with
     closDraft       |-> s.draftRef,      \* `draft` of the render whose closures the Mutation holds
     closServerValue |-> s.serverValue,   \* `serverValue` of that render
     previousData    |-> Undef,           \* context.previousData, set by onMutate
     snapshot        |-> Undef,           \* the previousData onMutate snapshotted
     phase           |-> "pending",       \* pending (before onMutate), then inflight
     current         |-> TRUE,            \* the observer's current Mutation
     edited          |-> FALSE]           \* a user setDraft happened since mutate()

\* The sequence q without its i-th element.
Remove(q, i) == SubSeq(q, 1, i - 1) \o SubSeq(q, i + 1, Len(q))

\* Mutation i settled: the observer shows its outcome if it is the current one.
Settled(s, i, outcome) ==
    [s EXCEPT !.mutations = Remove(@, i),
              !.status = IF s.mutations[i].current THEN outcome ELSE @]

\* Variant: the snapshot is taken after the optimistic apply.
SaveOnMutateLateSnapshot(s, i) ==
    LET m == s.mutations[i]
    IN  [s EXCEPT !.serverValue = m.variables,
                  !.draft = Undef,
                  !.mutations[i] = [m EXCEPT !.previousData = m.variables,
                                             !.snapshot = m.variables,
                                             !.phase = "inflight"],
                  !.nCommits = @ + 1,
                  !.lastCommit = m.variables]

\* return { previousData, ...mutationOptions.onMutate?.(draft) }: a previousData
\* key of the caller's object replaces the snapshot.
Context(previousData) ==
    IF callerContext # Undef THEN callerContext ELSE previousData

\* useReactQueryAutoSave onMutate: snapshot, optimistic apply, clear the draft;
\* react-query then calls mutationFn(variables).
SaveOnMutate(s, i) ==
    LET m == s.mutations[i]
        previousData == m.closServerValue
    IN  [s EXCEPT !.serverValue = m.variables,
                  !.draft = Undef,
                  !.mutations[i] = [m EXCEPT !.previousData = Context(previousData),
                                             !.snapshot = previousData,
                                             !.phase = "inflight"],
                  !.nCommits = @ + 1,
                  !.lastCommit = m.variables]

\* useReactQueryAutoSync onMutate, the part after `await cancelQueries`.
SyncOnMutate(s, i) ==
    LET m == s.mutations[i]
        previousData == s.queryData
    IN  [s EXCEPT !.queryData = m.variables,
                  !.draft = Undef,
                  !.mutations[i] = [m EXCEPT !.previousData = Context(previousData),
                                             !.snapshot = previousData,
                                             !.phase = "inflight"],
                  !.nCommits = @ + 1,
                  !.lastCommit = m.variables]

\* Variant: the handler merges although no merge function is supplied.
SaveErrorDraftAlwaysMerge(closureDraft, prevDraft) ==
    IF closureDraft = Undef
    THEN prevDraft
    ELSE Merge(prevDraft, closureDraft)

\* The draft onError of useReactQueryAutoSave writes: `draft` is the variable
\* of the enclosing render, prevDraft the mutation's variables.
SaveErrorDraft(closureDraft, prevDraft) ==
    IF closureDraft = Undef
    THEN prevDraft
    ELSE IF merge THEN Merge(prevDraft, closureDraft) ELSE prevDraft

\* useReactQueryAutoSave onError (no onSettled is installed by this hook).
SaveOnError(s, i) ==
    LET m == s.mutations[i]
    IN  Settled([s EXCEPT !.draft = SaveErrorDraft(m.closDraft, m.variables)], i, "error")

\* Variant: onSettled requests nothing.
SyncOnSettledSilent(s) == s

\* useReactQueryAutoSync onSettled
SyncOnSettled(s) == [s EXCEPT !.invalidations = 1]

\* useReactQueryAutoSync onError followed by onSettled; `draft` in onError is
\* the parameter (the mutation's variables), which shadows the state.
SyncOnError(s, i) ==
    LET m == s.mutations[i]
    IN  SyncOnSettled(Settled(
        [s EXCEPT !.queryData = m.previousData,
                  !.draft = IF m.variables # Undef THEN m.variables ELSE @], i, "error"))

\* Variant: a success handler clears the draft.
OnSuccessClearsDraft(s, i) ==
    LET r == Settled([s EXCEPT !.draft = Undef], i, "success")
    IN  IF mode = "sync" THEN SyncOnSettled(r) ELSE r

\* The mutation resolved: neither hook installs onSuccess; sync runs onSettled.
OnSuccess(s, i) ==
    LET r == Settled(s, i, "success")
    IN  IF mode = "sync" THEN SyncOnSettled(r) ELSE r

\* mutate(v): react-query builds the Mutation, makes it the observer's current
\* one and starts it.  In save mode onMutate has no await and runs in the same
\* task; in sync mode it first awaits cancelQueries and continues in OnMutateStep.
Mutate(s, v) ==
    LET old == [i \in DOMAIN s.mutations |-> [s.mutations[i] EXCEPT !.current = FALSE]]
        r == [s EXCEPT !.mutations = Append(old, NewMutation(s, v)),
                       !.status = "loading",
                       !.nMutates = @ + 1]
    IN  IF mode = "save" THEN SaveOnMutate(r, Len(r.mutations)) ELSE r

\* ------------------------------------------------------------------- save
\* Variant: save without the mutateEnabled gate.
SaveGateIgnored(s) ==
    IF s.draftRef # Undef THEN Mutate(s, s.draftRef) ELSE s

\* Variant: the closed gate is tested before the draft.
SaveGateFirst(s) ==
    IF s.mutateEnabled = FALSE
    THEN [s EXCEPT !.pendingSave = TRUE]
    ELSE IF s.draftRef # Undef THEN Mutate(s, s.draftRef) ELSE s

\* Variant: the gated save applies the draft optimistically.
SaveGatedWritesServerValue(s) ==
    IF s.draftRef # Undef
    THEN IF s.mutateEnabled = FALSE
         THEN [s EXCEPT !.pendingSave = TRUE, !.serverValue = s.draftRef]
         ELSE Mutate(s, s.draftRef)
    ELSE s

\* save of useReactQueryAutoSave (with the mutateEnabled gate)
SaveGated(s) ==
    IF s.draftRef # Undef
    THEN IF s.mutateEnabled = FALSE
         THEN [s EXCEPT !.pendingSave = TRUE]
         ELSE Mutate(s, s.draftRef)
    ELSE s

\* Variant: save does not test the draft.
SaveUngatedUnchecked(s) == Mutate(s, s.draftRef)

\* save of useReactQueryAutoSync (no gate)
SaveUngated(s) ==
    IF s.draftRef # Undef THEN Mutate(s, s.draftRef) ELSE s

Save(s) == IF mode = "save" THEN SaveGated(s) ELSE SaveUngated(s)

\* --------------------------------------------------------- lodash.debounce
\* Times are kept as ages: sinceLastCall = now() - lastCallTime and
\* sinceLastInvoke = now() - lastInvokeTime, each kept up to the value it is
\* compared with; timerLeft counts down to the expiry of the setTimeout.

\* debounce(save, wait, {maxWait}): maxWait = max(maxWait, wait)
MaxWaitEff == IF MaxWait > Wait THEN MaxWait ELSE Wait

ShouldInvoke(s) ==
    \/ s.sinceLastCall = NoTime
    \/ s.sinceLastCall >= Wait
    \/ (maxing /\ s.sinceLastInvoke >= MaxWaitEff)

\* Variant: the remaining wait looks at the last call only.
RemainingWaitIgnoresMaxWait(s) == Wait - s.sinceLastCall

RemainingWait(s) ==
    LET timeWaiting == Wait - s.sinceLastCall
        maxLeft == MaxWaitEff - s.sinceLastInvoke
    IN  IF maxing /\ maxLeft < timeWaiting THEN maxLeft ELSE timeWaiting

\* lastInvokeTime = time (only read when maxWait is given)
Invoked(s) == [s EXCEPT !.sinceLastInvoke = IF maxing THEN 0 ELSE @]

\* invokeFunc: the debounced function (save) runs
InvokeFunc(s) == Save(Invoked([s EXCEPT !.lastArgs = FALSE]))

\* saveDebounced(): a call of the debounced function
DebouncedCall(s) ==
    LET isInvoking == ShouldInvoke(s)
        c == [s EXCEPT !.lastArgs = TRUE, !.sinceLastCall = 0]
    IN  IF isInvoking /\ ~c.timerId
        THEN \* leadingEdge, leading = false
             Invoked([c EXCEPT !.timerId = TRUE, !.timerLeft = Wait])
        ELSE IF isInvoking /\ maxing
        THEN InvokeFunc([c EXCEPT !.timerLeft = Wait])
        ELSE IF ~c.timerId
        THEN [c EXCEPT !.timerId = TRUE, !.timerLeft = Wait]
        ELSE c

\* Variant: the timer callback invokes without asking shouldInvoke.
DebouncedTimerExpiredEager(s) ==
    LET e == [s EXCEPT !.timerId = FALSE, !.timerLeft = 0]
    IN  IF e.lastArgs THEN InvokeFunc(e) ELSE e

\* timerExpired: the setTimeout callback of the debounced function
DebouncedTimerExpired(s) ==
    IF ShouldInvoke(s)
    THEN \* trailingEdge
         LET e == [s EXCEPT !.timerId = FALSE, !.timerLeft = 0]
         IN  IF e.lastArgs THEN InvokeFunc(e) ELSE e
    ELSE [s EXCEPT !.timerLeft = RemainingWait(s)]

\* saveDebounced.cancel(); EmptyDebounceFunc.cancel does nothing
DebouncedCancel(s) ==
    IF autoSave
    THEN [s EXCEPT !.timerId = FALSE, !.timerLeft = 0,
                   !.sinceLastInvoke = IF maxing THEN MaxWaitEff ELSE @,
                   !.lastArgs = FALSE, !.sinceLastCall = NoTime]
    ELSE s

\* Variant: the returned save does not cancel the debounced save.
SaveKeepsDebounced(s) == Save(s)

\* saveAndCancelDebounced, the `save` the hook returns
SaveAndCancelDebounced(s) == Save(DebouncedCancel(s))

\* ------------------------------------------------------------ render, effects
\* Variant: the flush saves and leaves the pending flag set.
FlushKeepsPendingSave(s) ==
    IF mode = "save" /\ s.mutateEnabled = TRUE /\ s.pendingSave = TRUE
    THEN SaveAndCancelDebounced(s)
    ELSE s

\* Variant: the flush clears the pending flag and saves nothing.
FlushDropsPendingSave(s) ==
    IF mode = "save" /\ s.mutateEnabled = TRUE /\ s.pendingSave = TRUE
    THEN [s EXCEPT !.pendingSave = FALSE]
    ELSE s

\* "automatically save if we enable mutation and are pending a save" (render body)
FlushPendingSave(s) ==
    IF mode = "save" /\ s.mutateEnabled = TRUE /\ s.pendingSave = TRUE
    THEN SaveAndCancelDebounced([s EXCEPT !.pendingSave = FALSE])
    ELSE s

\* Variant: the effect does not test autoSaveOptions.wait.
ArmEffectUnguarded(s, r, prevDraft) ==
    IF r.draft # Undef /\ r.draft # prevDraft
    THEN DebouncedCall(s)
    ELSE s

\* Variant: the effect does not test the draft.
ArmEffectAnyDraft(s, r, prevDraft) ==
    IF autoSave /\ r.draft # prevDraft
    THEN DebouncedCall(s)
    ELSE s

\* Variant: the effect leaves a pending timer alone.
ArmEffectIfIdle(s, r, prevDraft) ==
    IF autoSave /\ r.draft # Undef /\ r.draft # prevDraft /\ ~s.timerId
    THEN DebouncedCall(s)
    ELSE s

\* "call saveDebounced when the draft changes": prevDraft is the draft of the
\* previous render, r the state this render shows
ArmEffect(s, r, prevDraft) ==
    IF autoSave /\ r.draft # Undef /\ r.draft # prevDraft
    THEN DebouncedCall(s)
    ELSE s

\* Variant: the merge effect passes the local data as the remote argument.
MergeEffectSwapped(s, r, prevData) ==
    IF mode = "sync" /\ merge /\ r.queryData # Undef /\ r.queryData # prevData
    THEN [s EXCEPT !.draft = IF @ # Undef THEN Merge(@, r.queryData) ELSE Undef]
    ELSE s

\* Variant: the merge effect runs although no merge function is supplied.
MergeEffectUnconditional(s, r, prevData) ==
    IF mode = "sync" /\ r.queryData # Undef /\ r.queryData # prevData
    THEN [s EXCEPT !.draft = IF @ # Undef THEN Merge(r.queryData, @) ELSE Undef]
    ELSE s

\* Variant: without a local draft the merge effect adopts the server data.
MergeEffectAdoptsRemote(s, r, prevData) ==
    IF mode = "sync" /\ merge /\ r.queryData # Undef /\ r.queryData # prevData
    THEN [s EXCEPT !.draft = IF @ # Undef THEN Merge(r.queryData, @) ELSE r.queryData]
    ELSE s

\* "merge the local data with the server data when the server data changes"
\* (useReactQueryAutoSync only)
MergeEffect(s, r, prevData) ==
    IF mode = "sync" /\ merge /\ r.queryData # Undef /\ r.queryData # prevData
    THEN [s EXCEPT !.draft = IF @ # Undef THEN Merge(r.queryData, @) ELSE Undef]
    ELSE s

\* shouldPreventUserFromLeaving of the beforeunload effect, for the render of r
ShouldPreventUserFromLeaving(r) ==
    IF mode = "save"
    THEN r.draft # Undef /\ r.alertIfUnsavedChanges
    ELSE r.draft = Undef /\ r.alertIfUnsavedChanges

\* "confirm before the user leaves if the draft value isn't saved": the cleanup
\* of the previous run removes its listener, this run adds one if it should.
UnloadEffect(s, r) == [s EXCEPT !.listener = ShouldPreventUserFromLeaving(r)]

\* One render of state r and its effects, in the order the hook declares them;
\* prev is the state the previous render showed.
Render(r, prev) ==
    LET a == FlushPendingSave([r EXCEPT !.draftRef = r.draft])
        b == ArmEffect(a, r, prev.draft)
        u == UnloadEffect(b, r)
        c == MergeEffect(u, r, prev.queryData)
    IN  c

\* Render until no state changes any more.
RECURSIVE Settle(_, _)
Settle(r, prev) ==
    LET n == Render(r, prev)
    IN  IF n.draft = r.draft /\ n.queryData = r.queryData /\ n.serverValue = r.serverValue
        THEN n
        ELSE Settle(n, r)

\* The second instance as a state of its own: its `draft` is the provider's.
PeerView == [peer EXCEPT !.draft = draft]

\* What the step leaves of an instance the model does not observe itself.
Unobserved(p) == [p EXCEPT !.observedDraft = NoReject]

\* Variant: the second instance does not render when the provider's draft changes.
PeerFollowsNothing(s) == peer

\* The provider's draft after the step is s.draft: a second instance renders
\* with it (draft = draftProvider.draft, draftRef.current = draft) and runs its
\* effects.
PeerFollows(s) ==
    IF peer.mounted /\ provided /\ s.draft # draft
    THEN Unobserved(Settle([PeerView EXCEPT !.draft = s.draft], PeerView))
    ELSE peer

\* The first instance after a step of the second that left the provider's draft d.
FirstFollows(d) ==
    IF d # draft THEN Settle([Cur EXCEPT !.draft = d], Cur) ELSE Cur

\* A step of the first instance ends in state s.
Apply(s) == Assign(s, PeerFollows(s))

\* A step of the second instance ends in state p.
PeerApply(p) == Assign(FirstFollows(p.draft), Unobserved(p))

\* ------------------------------------------------------------------ actions
\* A second instance after its first render (m: whether there is one).
PeerInitial(m) ==
    [draft |-> Undef, draftRef |-> Undef, serverValue |-> Undef,
     queryData |-> Undef, mutations |-> << >>, status |-> "idle",
     nMutates |-> 0, nCommits |-> 0, lastCommit |-> Undef,
     mutateEnabled |-> TRUE, pendingSave |-> FALSE,
     timerId |-> FALSE, timerLeft |-> 0, sinceLastCall |-> NoTime,
     sinceLastInvoke |-> IF maxing THEN MaxWaitEff ELSE 0, lastArgs |-> FALSE,
     invalidations |-> 0, observedDraft |-> NoReject,
     alertIfUnsavedChanges |-> FALSE, listener |-> FALSE,
     mounted |-> m, stateDraft |-> Undef, peerDraft |-> Undef]

\* The hook after its first render, for any mode and any options.
InitInstance ==
    /\ mode \in {"save", "sync"}
    /\ merge \in BOOLEAN
    /\ autoSave \in BOOLEAN
    /\ maxing \in BOOLEAN
    /\ maxing => autoSave
    /\ callerContext \in CallerContexts
    /\ provided \in BOOLEAN
    /\ provided => mode = "save"
    /\ alertIfUnsavedChanges \in BOOLEAN
    /\ listener = (mode = "sync" /\ alertIfUnsavedChanges)
    /\ mounted = TRUE
    /\ stateDraft = Undef
    /\ peerDraft = Undef
    /\ draft = Undef
    /\ draftRef = Undef
    /\ serverValue = Undef
    /\ queryData = IF mode = "sync" THEN InitialRemote ELSE Undef
    /\ mutations = << >>
    /\ status = "idle"
    /\ nMutates = 0
    /\ nCommits = 0
    /\ lastCommit = Undef
    /\ mutateEnabled = TRUE
    /\ pendingSave = FALSE
    /\ timerId = FALSE
    /\ timerLeft = 0
    /\ sinceLastCall = NoTime
    /\ sinceLastInvoke = IF maxing THEN MaxWaitEff ELSE 0
    /\ lastArgs = FALSE
    /\ invalidations = 0
    /\ observedDraft = NoReject
    /\ peer \in {PeerInitial(m) : m \in BOOLEAN}
    /\ userEdits \in {[recorded |-> r, count |-> 0, last |-> Undef] : r \in BOOLEAN}

\* The same without the record of the user's edits.
InitHook ==
    /\ InitInstance
    /\ ~userEdits.recorded
    /\ peer.mounted => (provided /\ autoSave)

\* The history of the user's edits after setDraft(v).
Recorded(h, v) ==
    IF h.recorded THEN [h EXCEPT !.count = @ + 1, !.last = v] ELSE h

\* The user calls setDraft(v).
SetDraft(v) ==
    /\ v # draft
    /\ LET s == [Cur EXCEPT !.draft = v,
                            !.userEdits = Recorded(@, v),
                            !.mutations = [i \in DOMAIN @ |-> [@[i] EXCEPT !.edited = TRUE]]]
       IN  Apply(Settle(s, Cur))
    /\ UNCHANGED config

\* The user calls save().
CallSave ==
    /\ Apply(Settle(SaveAndCancelDebounced(Cur), Cur))
    /\ UNCHANGED config

\* The owner re-renders the hook with another mutateEnabled (save mode).
SetMutateEnabled(b) ==
    /\ mode = "save"
    /\ b # mutateEnabled
    /\ Apply(Settle([Cur EXCEPT !.mutateEnabled = b], Cur))
    /\ UNCHANGED config

TimerDue == timerId /\ timerLeft = 0

\* The debounce timer of the second instance is due.
PeerTimerDue == peer.mounted /\ peer.timerId /\ peer.timerLeft = 0

Older(age, cap) == IF age = NoTime \/ age >= cap THEN age ELSE age + 1

\* One tick of the clock passes; a due timer runs first.
Tick ==
    /\ autoSave
    /\ ~TimerDue
    /\ ~PeerTimerDue
    /\ peer' = IF peer.mounted
               THEN [peer EXCEPT !.timerLeft = IF peer.timerId THEN @ - 1 ELSE @,
                                 !.sinceLastCall = Older(@, Wait),
                                 !.sinceLastInvoke = IF maxing THEN Older(@, MaxWaitEff) ELSE @]
               ELSE peer
    /\ timerLeft' = IF timerId THEN timerLeft - 1 ELSE timerLeft
    /\ sinceLastCall' = Older(sinceLastCall, Wait)
    /\ sinceLastInvoke' = IF maxing THEN Older(sinceLastInvoke, MaxWaitEff) ELSE sinceLastInvoke
    /\ observedDraft' = NoReject
    /\ mounted
    /\ UNCHANGED <<alertIfUnsavedChanges, listener, mounted, stateDraft, peerDraft, userEdits>>
    /\ UNCHANGED <<config, draft, draftRef, serverValue, queryData, mutations, status,
                   nMutates, nCommits, lastCommit, mutateEnabled, pendingSave, timerId, lastArgs, invalidations>>

\* The debounce timer expires.
TimerExpired ==
    /\ TimerDue
    /\ Apply(Settle(DebouncedTimerExpired(Cur), Cur))
    /\ UNCHANGED config

\* Sync mode: cancelQueries resolved, the rest of onMutate runs.
OnMutateStep(i) ==
    /\ mode = "sync"
    /\ mutations[i].phase = "pending"
    /\ Apply(Settle(SyncOnMutate(Cur, i), Cur))
    /\ UNCHANGED config

\* The remote commit of mutation i resolves.
Resolve(i) ==
    /\ mutations[i].phase = "inflight"
    /\ Apply(Settle(OnSuccess([Cur EXCEPT !.observedDraft = draft], i), Cur))
    /\ UNCHANGED config

\* The remote commit of mutation i rejects.
Reject(i) ==
    /\ mutations[i].phase = "inflight"
    /\ LET s == [Cur EXCEPT !.observedDraft = draft]
       IN  Apply(Settle(IF mode = "save" THEN SaveOnError(s, i) ELSE SyncOnError(s, i),
                        Cur))
    /\ UNCHANGED config

\* Sync mode: a fetch (initial load, poll or refetch) delivers v.
FetchResolve(v) ==
    /\ mode = "sync"
    /\ v # queryData
    /\ Apply(Settle([Cur EXCEPT !.queryData = v, !.invalidations = 0,
                                !.observedDraft = draft], Cur))
    /\ UNCHANGED config

Next ==
    \/ \E v \in Edits \cup {Undef} : SetDraft(v)
    \/ CallSave
    \/ \E b \in BOOLEAN : SetMutateEnabled(b)
    \/ Tick
    \/ TimerExpired
    \/ \E i \in DOMAIN mutations : OnMutateStep(i)
    \/ \E i \in DOMAIN mutations : Resolve(i)
    \/ \E i \in DOMAIN mutations : Reject(i)
    \/ \E v \in Remotes : FetchResolve(v)

\* The owner re-renders the hook with another alertIfUnsavedChanges.
SetAlertIfUnsavedChanges(b) ==
    /\ b # alertIfUnsavedChanges
    /\ Apply(Settle([Cur EXCEPT !.alertIfUnsavedChanges = b], Cur))
    /\ UNCHANGED config

\* Variant: the unmount leaves the debounced save alone.
UnmountKeepsTimer ==
    /\ Apply([Cur EXCEPT !.listener = FALSE, !.mounted = FALSE])
    /\ UNCHANGED config

\* The hook is unmounted: the cleanups of its effects run (the debounced save
\* is cancelled, the beforeunload listener that was added is removed).  The
\* instance is not followed any further.
Unmount ==
    /\ Apply([DebouncedCancel(Cur) EXCEPT !.listener = FALSE, !.mounted = FALSE])
    /\ UNCHANGED config

\* The options left at their defaults: no caller onMutate context, no
\* draftProvider, alertIfUnsavedChanges false.
DefaultOptions == callerContext = Undef /\ ~provided /\ ~alertIfUnsavedChanges

\* Options without maxWait.
Init == InitHook /\ ~maxing /\ DefaultOptions

Spec == Init /\ [][Next]_vars

\* Options with maxWait.
InitMaxWait == InitHook /\ maxing /\ DefaultOptions

SpecMaxWait == InitMaxWait /\ [][Next]_vars

\* maxWait without a merge function (merging plays no part in the timing).
InitMaxWaitNoMerge == InitMaxWait /\ ~merge

SpecMaxWaitNoMerge == InitMaxWaitNoMerge /\ [][Next]_vars

\* The default options with autosave, and the component may unmount.
InitUnmount == Init /\ autoSave

NextUnmount ==
    \/ Next
    \/ Unmount

SpecUnmount == InitUnmount /\ [][NextUnmount]_vars

\* ------------------------------------------------- autoSaveOptions.maxWait changes
\* Variant: the new debounced function is not called.
RecreateDebouncedUnarmed(s, b) ==
    [s EXCEPT !.timerId = FALSE, !.timerLeft = 0, !.lastArgs = FALSE,
              !.sinceLastCall = NoTime,
              !.sinceLastInvoke = IF b THEN MaxWaitEff ELSE 0]

\* The owner passes another maxWait (b: whether it is defined).  useMemo builds
\* a new debounced function, the cleanup of the effect on [saveDebounced]
\* cancels the previous one, and the effect on [saveDebounced, draft, wait]
\* runs again and calls the new one (its leading edge sets lastInvokeTime).
RecreateDebounced(s, b) ==
    LET fresh == [s EXCEPT !.timerId = FALSE, !.timerLeft = 0, !.lastArgs = FALSE,
                           !.sinceLastCall = NoTime,
                           !.sinceLastInvoke = IF b THEN MaxWaitEff ELSE 0]
    IN  IF autoSave /\ s.draft # Undef
        THEN [DebouncedCall(fresh) EXCEPT !.sinceLastInvoke = 0]
        ELSE fresh

SetMaxWait(b) ==
    /\ autoSave
    /\ b # maxing
    /\ maxing' = b
    /\ Apply(RecreateDebounced(Cur, b))
    /\ UNCHANGED <<mode, merge, autoSave, callerContext, provided>>

\* Autosave without a merge function; maxWait is undefined at first and may change.
InitRetime == Init /\ autoSave /\ ~merge

NextRetime ==
    \/ \E v \in Edits \cup {Undef} : SetDraft(v)
    \/ Tick
    \/ TimerExpired
    \/ \E i \in DOMAIN mutations : OnMutateStep(i)
    \/ \E i \in DOMAIN mutations : Resolve(i)
    \/ \E i \in DOMAIN mutations : Reject(i)
    \/ \E b \in BOOLEAN : SetMaxWait(b)

SpecRetime == InitRetime /\ [][NextRetime]_vars

\* ------------------------------------------------- a remote that rejects every commit
\* No commit resolves and no fetch result arrives.
NextReject ==
    \/ \E v \in Edits \cup {Undef} : SetDraft(v)
    \/ CallSave
    \/ \E b \in BOOLEAN : SetMutateEnabled(b)
    \/ Tick
    \/ TimerExpired
    \/ \E i \in DOMAIN mutations : OnMutateStep(i)
    \/ \E i \in DOMAIN mutations : Reject(i)

SpecReject == Init /\ [][NextReject]_vars

\* ------------------------------------------------------ a user who stops editing
\* A setDraft(v) of a user who edits at most MaxEdits times.
LimitedEdit(v) ==
    /\ userEdits.count < MaxEdits
    /\ SetDraft(v)

\* Autosave on, mutateEnabled left true; the remote accepts every commit and
\* no fetch result arrives.
InitConverge == InitInstance /\ userEdits.recorded /\ ~maxing /\ DefaultOptions /\ autoSave

NextConverge ==
    \/ \E v \in Edits : LimitedEdit(v)
    \/ Tick
    \/ TimerExpired
    \/ \E i \in DOMAIN mutations : OnMutateStep(i)
    \/ \E i \in DOMAIN mutations : Resolve(i)

\* Time passes, due timers run, started commits reach the remote and resolve.
SpecConverge ==
    /\ InitConverge
    /\ [][NextConverge]_vars
    /\ WF_vars(Tick)
    /\ WF_vars(TimerExpired)
    /\ WF_vars(\E i \in DOMAIN mutations : OnMutateStep(i))
    /\ WF_vars(\E i \in DOMAIN mutations : Resolve(i))

\* ------------------------------------------------- two instances, one provider
\* The only edit of a behaviour: the user calls the provider's setDraft(v).
FirstEdit(v) ==
    /\ draft = Undef
    /\ nMutates = 0
    /\ peer.nMutates = 0
    /\ SetDraft(v)

\* The debounce timer of the second instance expires.
PeerTimerExpired ==
    /\ PeerTimerDue
    /\ PeerApply(Settle(DebouncedTimerExpired(PeerView), PeerView))
    /\ UNCHANGED config

\* The remote commit of mutation i of the second instance resolves.
PeerResolve(i) ==
    /\ peer.mounted
    /\ peer.mutations[i].phase = "inflight"
    /\ PeerApply(Settle(OnSuccess(PeerView, i), PeerView))
    /\ UNCHANGED config

\* The remote commit of mutation i of the second instance rejects.
PeerReject(i) ==
    /\ peer.mounted
    /\ peer.mutations[i].phase = "inflight"
    /\ PeerApply(Settle(IF mode = "save" THEN SaveOnError(PeerView, i)
                                         ELSE SyncOnError(PeerView, i),
                        PeerView))
    /\ UNCHANGED config

\* Two instances with autosave share a draftProvider; the user edits once and
\* then leaves the hooks alone.
InitShared ==
    InitHook /\ ~maxing /\ callerContext = Undef /\ ~alertIfUnsavedChanges /\ peer.mounted

NextShared ==
    \/ \E v \in Edits : FirstEdit(v)
    \/ Tick
    \/ TimerExpired
    \/ \E i \in DOMAIN mutations : Resolve(i)
    \/ \E i \in DOMAIN mutations : Reject(i)
    \/ PeerTimerExpired
    \/ \E i \in DOMAIN peer.mutations : PeerResolve(i)
    \/ \E i \in DOMAIN peer.mutations : PeerReject(i)

SpecShared == InitShared /\ [][NextShared]_vars

\* The default options with or without a draftProvider.
InitProvider ==
    InitHook /\ ~maxing /\ callerContext = Undef /\ ~alertIfUnsavedChanges /\ ~peer.mounted

SpecProvider == InitProvider /\ [][Next]_vars

\* Any caller context and alertIfUnsavedChanges (no maxWait, no draftProvider),
\* a draft of null, changes of alertIfUnsavedChanges and the unmount.
InitOptions == InitHook /\ ~maxing /\ ~provided

NextOptions ==
    \/ Next
    \/ SetDraft(Null)
    \/ \E b \in BOOLEAN : SetAlertIfUnsavedChanges(b)
    \/ Unmount

SpecOptions == InitOptions /\ [][NextOptions]_vars

\* ------------------------------------------------------------------ claims
\* The authoritative value of the current state.
AuthNow == IF mode = "save" THEN serverValue ELSE queryData

\* Number of Mutations whose onMutate has not run yet.
NPending(ms) == Cardinality({i \in DOMAIN ms : ms[i].phase = "pending"})

\* In this step the onMutate of the Mutation at index j of the next state ran.
BecameInflight(j) ==
    /\ j \in DOMAIN mutations'
    /\ mutations'[j].phase = "inflight"
    /\ IF mode = "sync"
       THEN j \in DOMAIN mutations /\ mutations[j].phase = "pending"
       ELSE j = Len(mutations')

\* C1: a commit is started with the defined draft D as its value (with maxWait
\* an edit can start the commit of its own value in the same task); its onMutate
\* snapshots the authoritative value A as previousData, sets the authoritative
\* value to D, clears the draft and hands exactly D to the remote commit; and
\* no Mutation settles before its onMutate has run.
C1_CommitStartOrder ==
    [][ /\ nMutates' > nMutates =>
              /\ mutations'[Len(mutations')].variables # Undef
              /\ (~maxing /\ Len(mutations') > Len(mutations)) =>
                    mutations'[Len(mutations')].variables = draft
        /\ nCommits' > nCommits =>
              /\ nCommits' = nCommits + 1
              /\ lastCommit' # Undef
              /\ AuthNow' = lastCommit'
              /\ draft' = Undef
              /\ \E j \in DOMAIN mutations' :
                    /\ BecameInflight(j)
                    /\ mutations'[j].variables = lastCommit'
                    /\ mutations'[j].previousData = AuthNow
        /\ NPending(mutations) - NPending(mutations') <= nCommits' - nCommits
        /\ mode = "save" => NPending(mutations') = 0
      ]_vars

\* C1 witness: a commit of D is in flight over the snapshot "A", applied
\* optimistically, with the draft cleared.
C1_Witness ==
    /\ mode = "sync"
    /\ draft = Undef
    /\ \E i \in DOMAIN mutations :
          /\ mutations[i].phase = "inflight"
          /\ mutations[i].previousData = InitialRemote
          /\ mutations[i].variables = "B"
          /\ lastCommit = "B"
          /\ queryData = "B"

\* saveStatus of useReactQueryAutoSave
IsLoading == status = "loading"
IsError == status = "error"
\* Variant: a draft that differs from the server value hides the error.
SaveStatusUnsavedFirst ==
    IF IsLoading THEN "saving"
    ELSE IF serverValue # draft THEN "unsaved"
    ELSE IF IsError THEN "error"
    ELSE "saved"
SaveStatus ==
    IF IsLoading THEN "saving"
    ELSE IF IsError THEN "error"
    ELSE IF serverValue = draft THEN "saved"
    ELSE "unsaved"

\* C2: when a commit of B resolves and no edit was made while it was in
\* flight, the draft is undefined, the authoritative value is B and (save
\* mode) the save status is "saved".
C2_ResolveLeavesSaved ==
    [][ \A i \in DOMAIN mutations :
          (Resolve(i) /\ ~mutations[i].edited) =>
              /\ draft' = Undef
              /\ AuthNow' = mutations[i].variables
              /\ mode = "save" => SaveStatus' = "saved"
      ]_vars

\* C3: when the remote commit of a Mutation rejects, the authoritative value
\* is back at the previousData that Mutation snapshotted in its onMutate, in
\* sync mode and in save mode.
C3_RejectRestoresAuthoritative ==
    [][ \A i \in DOMAIN mutations :
          Reject(i) => AuthNow' = mutations[i].previousData
      ]_vars

\* C4: when a commit of B that started from authoritative value A rejects
\* with no edit made meanwhile (the draft is undefined), the draft is B again,
\* the authoritative value is A again and (save mode) the status is "error",
\* with or without a merge function.
C4_RejectWithoutEdit ==
    [][ \A i \in DOMAIN mutations :
          (Reject(i) /\ ~mutations[i].edited /\ draft = Undef) =>
              /\ draft' = mutations[i].variables
              /\ AuthNow' = mutations[i].previousData
              /\ mode = "save" => SaveStatus' = "error"
      ]_vars

\* C5: with a merge function, when a commit of B rejects after the user set
\* the draft to C, the draft becomes merge(B, C).
C5_RejectMergesEdit ==
    [][ \A i \in DOMAIN mutations :
          (merge /\ Reject(i) /\ mutations[i].edited /\ draft # Undef) =>
              draft' = Merge(mutations[i].variables, draft)
      ]_vars

C7_RejectReadsLiveDraft ==
    [][ \A i \in DOMAIN mutations :
          (mode = "save" /\ Reject(i)) =>
              draft' = SaveErrorDraft(draft, mutations[i].variables)
      ]_vars

\* C8: at most one remote commit is in flight.
C8_OneCommitInFlight ==
    Cardinality({i \in DOMAIN mutations : mutations[i].phase = "inflight"}) <= 1

\* C9: debounce coalescing without maxWait.  An edit (a setDraft(v) step,
\* after which the draft is v) never commits by itself: it restarts the quiet
\* period and leaves a timer pending that is due no later than Wait after it.  A timer that expires less than Wait after the
\* last edit commits nothing and is re-armed for the remainder.  A timer
\* commit happens exactly Wait after the last edit, once, with the draft of
\* that moment, and leaves no timer behind.
C9_DebounceCoalescing ==
    [][ /\ \A v \in Edits :
              (autoSave /\ draft' = v /\ SetDraft(v)) =>
                  /\ nMutates' = nMutates
                  /\ timerId' /\ lastArgs'
                  /\ sinceLastCall' = 0
                  /\ timerLeft' <= Wait
        /\ (timerId /\ timerId') => timerLeft' + sinceLastCall' <= Wait
        /\ (TimerDue /\ TimerExpired) =>
              /\ sinceLastCall < Wait =>
                    /\ nMutates' = nMutates
                    /\ timerId'
                    /\ timerLeft' = Wait - sinceLastCall
              /\ nMutates' > nMutates =>
                    /\ sinceLastCall = Wait
                    /\ nMutates' = nMutates + 1
                    /\ mutations'[Len(mutations')].variables = draft
                    /\ ~timerId' /\ ~lastArgs'
              /\ (sinceLastCall = Wait /\ draft # Undef
                      /\ (mode = "save" => mutateEnabled)) =>
                    nMutates' = nMutates + 1
      ]_vars

\* A second edit (C) arrived inside the quiet period of the first: the timer
\* of the first edit is due, less than Wait after the last edit, and nothing
\* has been committed.
C9_Witness ==
    /\ autoSave /\ ~maxing
    /\ timerId /\ timerLeft = 0
    /\ sinceLastCall > 0 /\ sinceLastCall < Wait
    /\ draft = "C"
    /\ nMutates = 0

\* C10: the mutateEnabled gate of save mode.  While the gate is closed no
\* commit starts; a save() or a debounce fire with a draft sets the pending
\* flag; opening the gate with the flag set starts exactly one commit, with
\* the pending draft, and clears the flag; opening it without the flag
\* starts none.
C10_GatedCommit ==
    [][ mode = "save" =>
        /\ (~mutateEnabled /\ ~mutateEnabled') =>
              nMutates' = nMutates /\ nCommits' = nCommits
        /\ (~mutateEnabled /\ draft # Undef
                /\ (CallSave \/ (TimerExpired /\ lastArgs /\ sinceLastCall >= Wait))) =>
              pendingSave' /\ nMutates' = nMutates
        /\ (~mutateEnabled /\ mutateEnabled' /\ pendingSave /\ draft # Undef) =>
              /\ nMutates' = nMutates + 1
              /\ nCommits' = nCommits + 1
              /\ lastCommit' = draft
              /\ ~pendingSave'
        /\ (~mutateEnabled /\ mutateEnabled' /\ ~pendingSave) =>
              nMutates' = nMutates
        /\ mutateEnabled' => ~pendingSave'
      ]_vars

\* save() was called with draft B while the gate was closed: nothing was
\* committed and the pending flag is set.
C10_Witness ==
    /\ mode = "save"
    /\ ~mutateEnabled
    /\ pendingSave
    /\ draft = "B"
    /\ nMutates = 0

\* C11: background merge.  With a merge function, when a fetch delivers a
\* defined value R while no commit is running and the draft is L (defined),
\* the draft becomes merge(R, L).
C11_BackgroundMerge ==
    [][ \A v \in Remotes :
          (FetchResolve(v) /\ merge /\ draft # Undef /\ mutations = << >>) =>
              /\ draft' = Merge(v, draft)
              /\ queryData' = v
      ]_vars

\* After the only commit succeeded, the fetch of A was observed with draft C
\* and left the draft merge(A, C).
C11_Witness ==
    /\ mode = "sync" /\ merge
    /\ nMutates = 1 /\ status = "success" /\ mutations = << >>
    /\ observedDraft = "C" /\ invalidations = 0
    /\ queryData = InitialRemote
    /\ draft = Merge(InitialRemote, "C")

\* C12: without a merge function a fetched value never changes the draft.
C12_BackgroundUpdateIgnored ==
    [][ \A v \in Remotes :
          (FetchResolve(v) /\ ~merge) => draft' = draft
      ]_vars

\* After the only commit succeeded, the fetch of A was observed with draft C
\* and left the draft C.
C12_Witness ==
    /\ mode = "sync" /\ ~merge
    /\ nMutates = 1 /\ status = "success" /\ mutations = << >>
    /\ observedDraft = "C" /\ invalidations = 0
    /\ queryData = InitialRemote
    /\ draft = "C"

\* C13: save with an undefined draft is a no-op, whether it is the save() the
\* caller invokes or the one the debounce timer invokes: no mutate() and no
\* commit happens, the pending flag is not set (also with the gate closed),
\* the draft, the authoritative values and the mutation status are unchanged.
C13_SaveWithoutDraft ==
    [][ (draft = Undef /\ (CallSave \/ TimerExpired)) =>
            UNCHANGED <<draft, serverValue, queryData, mutations, status,
                        nMutates, nCommits, lastCommit, pendingSave>>
      ]_vars

\* The debounced save ran Wait after the last edit with the draft undefined
\* again and the gate closed: nothing was committed, no flag is set.
C13_Witness ==
    /\ mode = "save" /\ autoSave
    /\ ~mutateEnabled /\ ~pendingSave
    /\ draft = Undef
    /\ ~timerId /\ ~lastArgs /\ sinceLastCall = Wait
    /\ nMutates = 0

\* The status the priority order saving > error > saved > unsaved gives, with
\* `saved` when the authoritative value equals the draft or the draft is
\* undefined with nothing pending.
PriorityStatus ==
    IF IsLoading THEN "saving"
    ELSE IF IsError THEN "error"
    ELSE IF serverValue = draft \/ (draft = Undef /\ ~pendingSave) THEN "saved"
    ELSE "unsaved"

\* C14: in save mode the save status is never "loading" and is, in every
\* state, the status of the priority order saving > error > saved > unsaved.
C14_StatusByPriority ==
    mode = "save" =>
        /\ SaveStatus \in {"saving", "error", "saved", "unsaved"}
        /\ SaveStatus = PriorityStatus

\* C16: without autoSaveOptions no timer is ever armed, a mutate() happens
\* only in a save() call or in the flush of a pending save when the gate
\* opens, and the pending flag is only set by a save() call.
C16_ManualSaveOnly ==
    [][ ~autoSave =>
          /\ ~timerId'
          /\ nMutates' > nMutates =>
                \/ CallSave
                \/ SetMutateEnabled(TRUE) /\ pendingSave
          /\ (pendingSave' /\ ~pendingSave) => CallSave
      ]_vars

\* Without autoSaveOptions the user has typed C and nothing was committed or
\* scheduled.
C16_Witness ==
    /\ ~autoSave
    /\ draft = "C"
    /\ ~timerId /\ sinceLastCall = NoTime
    /\ nMutates = 0 /\ ~pendingSave

\* C17: in sync mode every step in which a commit settles, resolved or
\* rejected (its Mutation leaves the unsettled ones), calls invalidateQueries.
C17_SettleInvalidates ==
    [][ (mode = "sync" /\ Len(mutations') < Len(mutations)) => invalidations' = 1
      ]_vars

\* The last commit was rejected and the invalidation it requested is pending.
C17_Witness ==
    /\ mode = "sync"
    /\ status = "error" /\ mutations = << >>
    /\ observedDraft # NoReject
    /\ invalidations = 1

\* C15: while the hook is mounted its beforeunload listener is registered if
\* and only if the draft is defined and alertIfUnsavedChanges is true; after
\* the unmount no listener is registered.
C15_InterceptIffUnsavedDraft ==
    /\ mounted => (listener <=> (draft # Undef /\ alertIfUnsavedChanges))
    /\ ~mounted => ~listener

\* C18: whatever the caller's onMutate returns, the rejection of a commit
\* rolls the query data back to the value the engine snapshotted when that
\* commit began.
C18_CallerCannotUndoRollback ==
    [][ \A i \in DOMAIN mutations :
          (mode = "sync" /\ Reject(i)) => queryData' = mutations[i].snapshot
      ]_vars

Coalesce(a, b) == IF a = Undef \/ a = Null THEN b ELSE a

\* draft: draft ?? queryResult.data, the draft useReactQueryAutoSync returns
ExposedDraft == Coalesce(draft, queryData)

\* C20: in sync mode the draft the hook returns is the local draft when that
\* is defined and the query data otherwise; it is undefined only when both are.
C20_ExposedDraft ==
    mode = "sync" =>
        /\ ExposedDraft = (IF draft # Undef THEN draft ELSE queryData)
        /\ ExposedDraft = Undef <=> (draft = Undef /\ queryData = Undef)

\* C21: an edit made while a commit is in flight survives the resolve of that
\* commit: the draft (and draftRef.current, which the next save reads) after
\* the step is the draft before it; and a mutate() that starts carries the
\* draft of that moment.
C21_EditSurvivesResolve ==
    [][ /\ \A i \in DOMAIN mutations :
              (draft # Undef /\ Len(mutations') < Len(mutations)
                  /\ mutations[i].edited /\ Resolve(i)) =>
                  draft' = draft /\ draftRef' = draft
        /\ (Len(mutations') > Len(mutations)) =>
              mutations'[Len(mutations')].variables = draft
      ]_vars

\* The only commit, of B, resolved while the draft was the newer edit C, and
\* the draft is still C.
C21_Witness ==
    /\ nMutates = 1 /\ status = "success" /\ mutations = << >>
    /\ lastCommit = "B"
    /\ observedDraft = "C"
    /\ mode = "sync" => invalidations = 1
    /\ draft = "C" /\ draftRef = "C"

\* C22: with maxWait, re-arming edits cannot postpone the commit.  A pending
\* timer is always due no later than maxWait after the last invocation point
\* (the first edit that armed it, or the previous invocation).  An edit that
\* re-arms a pending timer without committing leaves that point where it was.
\* When maxWait has elapsed, the timer callback, or an edit arriving at that
\* moment, commits the draft at once although the quiet period is not over
\* (in save mode provided mutateEnabled is not false).
C22_MaxWaitBound ==
    /\ []((maxing /\ timerId) => timerLeft + sinceLastInvoke <= MaxWaitEff)
    /\ [][ /\ \A v \in Edits :
                  (maxing /\ timerId /\ draft' = v /\ SetDraft(v)) =>
                      IF sinceLastInvoke >= MaxWaitEff
                      THEN (mode = "save" => mutateEnabled) =>
                              /\ nMutates' = nMutates + 1
                              /\ mutations'[Len(mutations')].variables = v
                      ELSE /\ nMutates' = nMutates
                           /\ timerId'
                           /\ sinceLastInvoke' = sinceLastInvoke
            /\ (maxing /\ TimerDue /\ sinceLastInvoke >= MaxWaitEff /\ lastArgs
                    /\ draft # Undef /\ (mode = "save" => mutateEnabled)
                    /\ TimerExpired) =>
                  /\ nMutates' = nMutates + 1
                  /\ mutations'[Len(mutations')].variables = draft
          ]_vars

\* maxWait after the first edit, in the middle of the quiet period of a later
\* edit, the timer is due and nothing has been committed yet.
C22_Witness ==
    /\ maxing /\ TimerDue /\ lastArgs
    /\ sinceLastInvoke = MaxWaitEff
    /\ sinceLastCall # NoTime /\ sinceLastCall < Wait
    /\ draft = "C"
    /\ nMutates = 0

\* C23: only a change that leaves the draft defined arms the debounce timer,
\* and only with autosave.  A step that starts a timer ends with a defined
\* draft.  A step during which the draft is and stays undefined (a fetch
\* result, a resolve, save(), a timer expiry, time passing) starts no timer,
\* records no debounced call and calls mutate() for nothing.
C23_ArmNeedsDraft ==
    [][ /\ (~timerId /\ timerId') => (autoSave /\ draft' # Undef)
        /\ (draft = Undef /\ draft' = Undef) =>
              /\ timerId' => timerId
              /\ lastArgs' => lastArgs
              /\ nMutates' = nMutates
      ]_vars

\* Autosave is on and there is no draft; a fetch has just delivered another
\* authoritative value: no timer is armed and nothing more was committed.
C23_Witness ==
    /\ mode = "sync" /\ autoSave
    /\ draft = Undef /\ observedDraft = Undef
    /\ invalidations = 0 /\ queryData = InitialRemote
    /\ nMutates = 1 /\ mutations = << >>
    /\ ~timerId /\ ~lastArgs

C25_SaveCancelsTimer ==
    (mounted /\ draft # Undef /\ (mode = "save" => mutateEnabled)) =>
        LET r == Settle(SaveAndCancelDebounced(Cur), Cur)
        IN  /\ r.nMutates = nMutates + 1
            /\ r.mutations[Len(r.mutations)].variables = draft
            /\ ~r.timerId /\ ~r.lastArgs

\* Autosave is on and save() has just committed the edit B ahead of its
\* timer: one mutate(), no timer pending.
C25_Witness ==
    /\ autoSave /\ nMutates = 1 /\ Len(mutations) = 1
    /\ mutations[1].variables = "B" /\ ~mutations[1].edited
    /\ sinceLastCall = NoTime
    /\ ~timerId /\ ~lastArgs /\ ~pendingSave

\* C26: pendingSave.current is true only in the save hook and only while
\* mutateEnabled is false: save() sets it only behind the closed gate, and the
\* render that sees mutateEnabled true again clears it, so no step ends with
\* the flag set and the gate open.
C26_PendingOnlyWhileDisabled ==
    pendingSave => (mode = "save" /\ ~mutateEnabled)

\* The debounce timer expired behind the closed gate: the save is pending and
\* nothing was committed.
C26_Witness ==
    /\ mode = "save" /\ autoSave
    /\ pendingSave /\ ~mutateEnabled
    /\ ~timerId /\ sinceLastCall = Wait
    /\ draft = "B" /\ nMutates = 0

\* C27: a fetch result that arrives while the draft is undefined leaves it
\* undefined, with or without a merge function.  (The query data changes by
\* a fetch result, by the optimistic apply of a starting commit and by the
\* rollback of a settling one; the step below is the first.)
C27_NoDraftFromRemote ==
    [][ (mode = "sync" /\ draft = Undef /\ queryData' # queryData
            /\ nCommits' = nCommits /\ Len(mutations') = Len(mutations)) =>
            draft' = Undef
      ]_vars

\* A merge function is supplied, B was committed, and a fetch has just
\* delivered another value while there was no draft: there is still none.
C27_Witness ==
    /\ mode = "sync" /\ merge
    /\ lastCommit = "B" /\ nCommits = 1
    /\ queryData = InitialRemote /\ invalidations = 0
    /\ observedDraft = Undef /\ draft = Undef

\* C28: the hook does not retry by itself.  With autosave, the settling of a
\* commit (its rejection in particular) arms no debounce timer, records no
\* debounced call and calls mutate() for nothing, so that without a further
\* edit or save() no further commit follows.
C28_NoRetryAfterReject ==
    [][ (autoSave /\ Len(mutations') < Len(mutations)) =>
            /\ timerId' => timerId
            /\ lastArgs' => lastArgs
            /\ nMutates' = nMutates
      ]_vars

\* C29: the authoritative value (serverValue of the save hook, the query
\* data of the sync hook) changes only in a step that starts a commit, which
\* sets it to the committed value, in a fetch result, or in a rejection.
\* Every other step (setDraft, a save() that is gated or finds no draft, a
\* change of mutateEnabled, the debounce timer, a resolve) leaves it alone.
C29_AuthoritativeWriters ==
    [][ AuthNow' # AuthNow =>
            \/ nCommits' = nCommits + 1 /\ AuthNow' = lastCommit'
            \/ \E v \in Remotes : FetchResolve(v)
            \/ \E i \in DOMAIN mutations : Reject(i)
      ]_vars

\* The commit of B was rejected and the query data rolled back to what it was
\* before the optimistic apply.
C29_Witness ==
    /\ mode = "sync" /\ nCommits = 1 /\ lastCommit = "B"
    /\ mutations = << >> /\ status = "error"
    /\ observedDraft = Undef /\ invalidations = 1
    /\ queryData = InitialRemote

\* C30: two instances given the same draftProvider, both with autosave.  After
\* every step both have rendered the provider's draft: the draft each returns
\* and the draftRef.current each would save are the same.  (That one edit can
\* nevertheless be committed once by each instance is the state C30_Witness.)
C30_SharedDraftObserved ==
    peer.mounted =>
        /\ peer.draft = draft
        /\ peer.draftRef = draftRef

\* After the single edit B each instance has sent its own commit of B (the
\* first was rejected, the restored draft re-armed both timers, and the timer
\* of the second instance expired first).
C30_Witness ==
    /\ peer.mounted
    /\ nMutates = 1 /\ lastCommit = "B" /\ status = "error"
    /\ peer.nMutates = 1 /\ peer.lastCommit = "B"
    /\ Len(peer.mutations) = 1

\* C31: the hook's own writes of the query data never make the merge touch
\* the draft.  The optimistic apply leaves the draft undefined, and the
\* rejection of a commit during which the user did not edit leaves the draft
\* equal to the committed value.
C31_OwnWritesNotMerged ==
    [][ \A i \in DOMAIN mutations :
          /\ (mode = "sync" /\ OnMutateStep(i)) => draft' = Undef
          /\ (mode = "sync" /\ draft = Undef /\ ~mutations[i].edited /\ Reject(i)) =>
                draft' = mutations[i].variables
      ]_vars

\* C32: whatever fires a commit (the debounce timer, save(), the flush of a
\* pending save), the value mutate() is called with is defined and is the
\* draft of that moment; and every value handed to mutationFn is the value
\* one of the started mutations was called with, hence defined.
C32_CommitCarriesCurrentDraft ==
    [][ /\ (nMutates' > nMutates) =>
              LET m == mutations'[Len(mutations')]
              IN  /\ nMutates' = nMutates + 1
                  /\ draft # Undef
                  /\ m.variables = draft
        /\ (nCommits' > nCommits) =>
              /\ lastCommit' # Undef
              /\ \E i \in DOMAIN mutations' : mutations'[i].variables = lastCommit'
      ]_vars

\* The timer armed by the edit B expired after the user had changed the
\* draft to C: the commit it fired carries C.
C32_Witness ==
    /\ autoSave /\ ~timerId /\ sinceLastCall = Wait
    /\ nMutates = 1 /\ Len(mutations) = 1
    /\ mutations[1].variables = "C"
    /\ mutations[1].closDraft = "C"

\* C33: convergence.  With autosave, the gate open, a user who stops editing
\* and commits that resolve, from some point on the draft is undefined, no
\* commit is in flight and the last value handed to mutationFn is the user's
\* last edit.
C33_Convergence ==
    <>[](/\ draft = Undef
         /\ mutations = << >>
         /\ userEdits.count > 0 => lastCommit = userEdits.last)

\* C34: sync hook.  When the user has edited between mutate() and the part of
\* onMutate after the awaited cancelQueries, so that the draft is defined when
\* the optimistic apply runs, the optimistic apply leaves that draft in place.
C34_EditBeforeApplyKept ==
    [][ \A i \in DOMAIN mutations :
          (mode = "sync" /\ draft # Undef /\ mutations[i].phase = "pending"
              /\ mutations[i].edited /\ OnMutateStep(i)) =>
              draft' = draft
      ]_vars

\* C35: a change of autoSaveOptions.maxWait while the draft is defined does
\* not lose the scheduled commit.  The step calls mutate() for nothing (the
\* old timer does not fire), leaves the draft alone, and ends with a timer of
\* the new debounced function armed for the full wait and a call waiting to be
\* invoked.
C35_RetimeKeepsCommit ==
    [][ (autoSave /\ draft # Undef /\ maxing' # maxing) =>
            /\ nMutates' = nMutates
            /\ draft' = draft /\ draftRef' = draft
            /\ timerId' /\ lastArgs'
            /\ timerLeft' = Wait
            /\ sinceLastCall' = 0
      ]_vars

\* maxWait was set while the edit C was waiting for its timer; the timer of
\* the new debounced function is due and nothing has been committed.
C35_Witness ==
    /\ maxing /\ TimerDue /\ lastArgs
    /\ sinceLastCall = Wait /\ sinceLastInvoke = Wait
    /\ draft = "C" /\ nMutates = 0

\* C36: when a save is pending behind the closed gate, the render that sees
\* mutateEnabled true clears the pending flag; it calls mutate() for nothing
\* if the draft is undefined by then, and otherwise calls it exactly once,
\* with the draft of that moment.
C36_FlushCarriesCurrentDraft ==
    (mode = "save" /\ pendingSave /\ ~mutateEnabled) =>
        LET r == Settle([Cur EXCEPT !.mutateEnabled = TRUE], Cur)
        IN  /\ ~r.pendingSave
            /\ draft = Undef => r.nMutates = nMutates
            /\ draft # Undef =>
                  /\ r.nMutates = nMutates + 1
                  /\ Len(r.mutations) = Len(mutations) + 1
                  /\ r.mutations[Len(r.mutations)].variables = draft

\* A save is pending behind the closed gate and the draft was set back to
\* undefined.
C36_Witness ==
    /\ mode = "save" /\ pendingSave /\ ~mutateEnabled
    /\ draft = Undef /\ nMutates = 0

\* The pending save was requested for B and the draft is C when the gate opens.
C36_WitnessNewer ==
    /\ mode = "save" /\ autoSave /\ pendingSave /\ ~mutateEnabled
    /\ draft = "C" /\ timerId /\ sinceLastCall = 0 /\ nMutates = 0

\* C37: in save mode the rejection of the observer's current commit makes the
\* save status "error", and a step taken in status "error" either leaves the
\* status "error" or is the start of the next commit: it calls mutate() and
\* ends in status "saving".
C37_ErrorUntilNextCommit ==
    [][ mode = "save" =>
          /\ \A i \in DOMAIN mutations :
                (mutations[i].phase = "inflight" /\ mutations[i].current) =>
                    LET r == Settle(SaveOnError([Cur EXCEPT !.observedDraft = draft], i), Cur)
                    IN  r.status = "error" /\ r.nMutates = nMutates
          /\ SaveStatus = "error" =>
                \/ SaveStatus' = "error" /\ nMutates' = nMutates
                \/ SaveStatus' = "saving" /\ nMutates' = nMutates + 1
      ]_vars

\* The commit of B was rejected and the user then edited the draft to C.
C37_Witness ==
    /\ mode = "save" /\ ~autoSave
    /\ status = "error" /\ mutations = << >> /\ nMutates = 1
    /\ lastCommit = "B" /\ serverValue = "B"
    /\ draft = "C" /\ ~pendingSave

\* C38: with autosave and a merge function, a fetch result that changes a
\* defined draft by merging ends with the merged draft in draftRef and with
\* the debounce restarted (a timer pending, a call waiting, the last call
\* now), without a mutate() call; and the mutate() call of an expiring timer
\* carries the draft of that moment.
C38_MergeRearms ==
    (mode = "sync" /\ merge /\ autoSave /\ draft # Undef) =>
        /\ \A v \in Remotes :
              v # queryData =>
                  LET r == Settle([Cur EXCEPT !.queryData = v, !.invalidations = 0,
                                              !.observedDraft = draft], Cur)
                  IN  r.draft # draft =>
                          /\ r.draft = Merge(v, draft)
                          /\ r.draftRef = r.draft
                          /\ r.timerId /\ r.lastArgs
                          /\ r.sinceLastCall = 0
                          /\ r.nMutates = nMutates
        /\ TimerDue =>
              LET t == Settle(DebouncedTimerExpired(Cur), Cur)
              IN  t.nMutates > nMutates =>
                      t.mutations[Len(t.mutations)].variables = draft

\* The commit of B is in flight, the user edited the draft to C, and a fetch
\* result A was merged into it: the draft is AC and the debounce restarted.
C38_Witness ==
    /\ mode = "sync" /\ merge /\ autoSave
    /\ nMutates = 1 /\ Len(mutations) = 1
    /\ mutations[1].variables = "B" /\ mutations[1].phase = "inflight"
    /\ queryData = "A" /\ draft = "AC" /\ draftRef = "AC"
    /\ timerId /\ lastArgs /\ sinceLastCall = 0

\* The authoritative value of the initial state: useState() of the save hook,
\* the loaded query data of the sync hook.
InitialAuthoritative == IF mode = "save" THEN Undef ELSE InitialRemote

\* C39: when every commit rejects and no fetch result arrives, the
\* authoritative value is, whenever no commit is outstanding, the value it
\* had before the first commit.
C39_RejectsRestoreAuthoritative ==
    mutations = << >> => AuthNow = InitialAuthoritative
====
